---- MODULE Spec2Model ----
(***************************************************************************)
(* A state-machine model of src/conditioned_main.py, the training driver   *)
(* of pytorch-neural-enhance: argument parsing, seeding, the 80/20 splits, *)
(* model / loss selection, the epoch loop with its training batches,       *)
(* checkpointing, evaluation and visualisation, and the final save.        *)
(*                                                                         *)
(* The program counter pc names the source line about to execute ("l69" is *)
(* line 69).  An uncaught exception ends the process: pc = "aborted" and   *)
(* raised names the exception.  argparse's rejection of a command line is  *)
(* pc = "exited".                                                          *)
(***************************************************************************)
EXTENDS Integers, Sequences, FiniteSets, TLC

(***************************************************************************)
(* Bounds of the model.                                                    *)
(***************************************************************************)
\* --epochs ranges over 0..MaxEpochs
MaxEpochs == 10
\* each orientation's dataset holds 0..MaxLen samples
MaxLen == 12
\* seeds range over 1..MaxSeed (the code draws from 1..10000 when none is given)
MaxSeed == 2
\* a --checkpoint_every given on the command line is one of "1".."MaxEveryArg"
MaxEveryArg == 1

(***************************************************************************)
(* Program constants.                                                      *)
(***************************************************************************)
\* line 18: default=8
BatchSizeDefault == 8
\* line 22: default=1
CudaIdxDefault == 1
\* line 26: default=10 (an int: argparse leaves a non-string default as it is)
CheckpointEveryDefault == 10
\* line 111: random.sample(..., 3)
SampleK == 3
\* line 23: manual_seed has no default, so it is None; 0 stands for None
None == 0

ModelChoices == {"can32", "unet"}
LossChoices == {"mse", "mae", "l1nima", "l2nima", "l1ssim", "colorssim"}
\* selector values a command line can carry besides the declared ones
OtherSelector == "other"

Min(a, b) == IF a <= b THEN a ELSE b

(***************************************************************************)
(* int(0.8 * n), lines 69 and 73, computed as CPython computes it: n is    *)
(* converted to a double, multiplied by the double nearest to 0.8          *)
(* (0x1.999999999999Ap-1: a 53-bit significand times 2^-53) with           *)
(* round-to-nearest-even, and int() truncates.  The significand does not   *)
(* fit a 32-bit integer and is kept as its hexadecimal digits.             *)
(***************************************************************************)
\* the significand of 0.8: its leading bit, then thirteen hexadecimal digits
\* (0.8 rounded toward zero ends in 9, rounded to nearest in A)
Mant08HexTruncated == <<1, 9, 9, 9, 9, 9, 9, 9, 9, 9, 9, 9, 9, 9>>
Mant08Hex == <<1, 9, 9, 9, 9, 9, 9, 9, 9, 9, 9, 9, 9, 10>>
\* bits of the significand
MantBits == 1 + 4 * (Len(Mant08Hex) - 1)

RECURSIVE MulDigits(_, _, _)
\* n * h + carry for digits h given most significant first, as
\* <<the product's hexadecimal digits below the leading one, least
\*   significant first, the value above them>>
MulDigits(n, h, carry) ==
  IF Len(h) = 1 THEN <<(<<>>), n * h[1] + carry>>
  ELSE LET t == n * h[Len(h)] + carry
           rest == MulDigits(n, SubSeq(h, 1, Len(h) - 1), t \div 16)
       IN <<(<<t % 16>>) \o rest[1], rest[2]>>

RECURSIVE BitLen(_)
BitLen(n) == IF n = 0 THEN 0 ELSE 1 + BitLen(n \div 2)

RECURSIVE Pow2(_)
Pow2(k) == IF k = 0 THEN 1 ELSE 2 * Pow2(k - 1)

\* bit k (from 0) of the number whose hexadecimal digits, least significant
\* first, are low, with the value top above them
BitAt(low, top, k) ==
  IF k \div 4 < Len(low)
    THEN (low[(k \div 4) + 1] \div Pow2(k % 4)) % 2
    ELSE (top \div Pow2(k - 4 * Len(low))) % 2

\* int(0.8 * n) for n >= 0
TruncMul08(n) ==
  LET prod == MulDigits(n, Mant08Hex, 0)
      low == prod[1]
      top == prod[2]
      fracBits == MantBits              \* the product is scaled by 2^-53
      hi == top \div Pow2(fracBits - 4 * Len(low))   \* its integer part
      s == BitLen(hi)                   \* bits the significand cannot hold
      dropped == {k \in 0..(s - 1) : BitAt(low, top, k) = 1}
      above == \E k \in dropped : k = s - 1
      below == \E k \in dropped : k < s - 1
      roundUp == /\ above
                 /\ \/ below
                    \/ BitAt(low, top, s) = 1    \* a tie goes to the even one
      carryOut == roundUp /\ \A k \in s..(fracBits - 1) : BitAt(low, top, k) = 1
  IN IF carryOut THEN hi + 1 ELSE hi

(***************************************************************************)
(* The state.                                                              *)
(***************************************************************************)
VARIABLES
  argv,                  \* the command line (sys.argv), read by line 33
  fivek,                 \* samples on disk per orientation, read by lines 65-66
  joinPolicy,            \* how torch_utils.JoinedDataLoader joins its two loaders
  pc, raised, abortedAt, \* position; the uncaught exception; where it rose
  opt,                   \* line 33
  pyRng, torchRng,       \* the global generators of random and of torch
  checkpoint_dir_made,   \* line 49
  device,                \* line 53
  train_size, test_size, \* lines 69-70, reused by lines 73-74
  landscape_split,       \* line 71: train_/test_landscape_dataset
  portrait_split,        \* line 75: train_/test_portrait_dataset
  model, criterion, optimizer, test_idxs,
  epoch,                 \* line 112; -1 before the loop binds it
  train_it, test_it,     \* the joined loaders' iterators
  iterated,              \* batches the running loop has yielded so far
  cumulative_loss, loss, test_loss,
  mode,                  \* model.train() / model.eval()
  grads,                 \* "none", "zero" (zero_grad) or "fresh" (backward)
  params,                \* the model's parameters: the optimizer steps applied
  batchDevice,           \* where the last batch's tensors were moved
  fetched,               \* training batches fetched since the start
  saved,                 \* torch.save calls, in order
  scalars,               \* writer.add_scalar calls, in order
  visualized,            \* epochs whose image grids were logged
  run, prev              \* launches of the same command line; the first one's choices

envVars == <<argv, fivek, joinPolicy>>
ctlVars == <<pc, raised, abortedAt>>
rngVars == <<pyRng, torchRng>>
setupVars == <<opt, checkpoint_dir_made, device, train_size, test_size,
               landscape_split, portrait_split, model, criterion, optimizer,
               test_idxs>>
loopVars == <<epoch, train_it, test_it, iterated, cumulative_loss, loss,
              test_loss, mode, grads, params, batchDevice, fetched>>
outVars == <<saved, scalars, visualized>>
runVars == <<run, prev>>
vars == <<envVars, ctlVars, rngVars, setupVars, loopVars, outVars, runVars>>

(***************************************************************************)
(* Command lines.  manual_seed is None when --manual_seed is absent;       *)
(* checkpoint_every is None when absent and otherwise the digits given.    *)
(***************************************************************************)
Argv(e, cu, sd, ce, mt, ls) ==
  [batch_size |-> BatchSizeDefault, epochs |-> e, cuda |-> cu,
   cuda_idx |-> CudaIdxDefault, manual_seed |-> sd, checkpoint_every |-> ce,
   model_type |-> mt, loss |-> ls]

Seeds == 1..MaxSeed

Sizes(l, p) == [landscape |-> l, portrait |-> p]

\* The launches explored, each a command line and the dataset it finds:
\* every pair of dataset sizes under a one-epoch run,
SplitLaunches ==
  {<<Argv(1, FALSE, sd, None, "can32", "mse"), Sizes(l, p)>> :
     sd \in {None} \cup Seeds, l \in 0..MaxLen, p \in 0..MaxLen}

\* every epoch count, device, seed and cadence over the largest datasets,
TrainingLaunches ==
  {<<Argv(e, cu, sd, ce, "can32", "mse"), Sizes(MaxLen, p)>> :
     e \in 0..MaxEpochs, cu \in BOOLEAN, sd \in {None} \cup Seeds,
     ce \in {None} \cup 1..MaxEveryArg, p \in {MaxLen - 1, MaxLen}}

\* and every selector a command line can carry under a one-epoch run.
SelectorLaunches ==
  {<<Argv(1, FALSE, 1, None, mt, ls), Sizes(MaxLen, MaxLen)>> :
     mt \in ModelChoices \cup {OtherSelector},
     ls \in LossChoices \cup {OtherSelector}}

Launches == SplitLaunches \cup TrainingLaunches \cup SelectorLaunches

\* argparse, line 33: choices=[...] rejects any other value of the two selectors
\* (a parser without choices accepts any value)
ParseAcceptsAnything(a) == TRUE
ParseAccepts(a) == a.model_type \in ModelChoices /\ a.loss \in LossChoices

\* line 26 has no type=: a value given on the command line stays a string
ParseArgs(a) ==
  [batch_size |-> a.batch_size, epochs |-> a.epochs, cuda |-> a.cuda,
   cuda_idx |-> a.cuda_idx, manual_seed |-> a.manual_seed,
   checkpoint_every |->
     IF a.checkpoint_every = None
       THEN [isStr |-> FALSE, n |-> CheckpointEveryDefault]
       ELSE [isStr |-> TRUE, n |-> a.checkpoint_every],
   model_type |-> a.model_type, loss |-> a.loss]

(***************************************************************************)
(* The random generators.  A generator that was never seeded starts from   *)
(* the operating system's entropy: its draws are any outcome.  A seeded    *)
(* one is a deterministic function of its seed and of the draws made.      *)
(***************************************************************************)
Unseeded == [seeded |-> FALSE, seed |-> 0, draws |-> 0]
\* (a generator that is not seeded stays as it was)
ManualSeedSkipped(g, s) == g
\* random.seed(s) and torch.manual_seed(s), lines 46-47
ManualSeed(g, s) == [seeded |-> TRUE, seed |-> s, draws |-> 0]
Advance(g) == [g EXCEPT !.draws = @ + 1]

Rotation(n, r) == [k \in 1..n |-> (k - 1 + r) % n]

\* torch.randperm(n) inside random_split: the permutations it can return
RandPerm(g, n) ==
  IF n = 0 THEN {<<>>}
  ELSE IF g.seeded THEN {Rotation(n, (g.seed + g.draws) % n)}
  ELSE {Rotation(n, r) : r \in 0..(n - 1)}

\* random.randint(1, 10000), line 44, narrowed to the model's seeds
RandInt(g) ==
  IF g.seeded THEN {1 + ((g.seed + g.draws) % MaxSeed)} ELSE Seeds

\* random.sample(range(n), SampleK), line 111, for n >= SampleK
Sample(g, n) ==
  LET Pick(r) == [k \in 1..SampleK |-> (r + k - 1) % n]
  IN IF g.seeded THEN {Pick((g.seed + g.draws) % n)}
     ELSE {Pick(r) : r \in 0..(n - 1)}

NoSplit == [train |-> <<>>, test |-> <<>>]
\* random_split(dataset, [a, b]) of a dataset of a + b samples, given the permutation
SplitBy(perm, a) == [train |-> SubSeq(perm, 1, a), test |-> SubSeq(perm, a + 1, Len(perm))]

NoDevice == [kind |-> "none", idx |-> -1]
\* line 53
SelectDevice(o) ==
  IF o.cuda THEN [kind |-> "cuda", idx |-> o.cuda_idx] ELSE [kind |-> "cpu", idx |-> -1]

\* opt before line 33 binds it
NoOpt == ParseArgs(Argv(0, FALSE, None, None, "unset", "unset"))

InitProgram ==
  /\ pc = "l33" /\ raised = "none" /\ abortedAt = "none"
  /\ opt = NoOpt
  /\ pyRng = Unseeded /\ torchRng = Unseeded
  /\ checkpoint_dir_made = FALSE
  /\ device = NoDevice
  /\ train_size = 0 /\ test_size = 0
  /\ landscape_split = NoSplit /\ portrait_split = NoSplit
  /\ model = "unset" /\ criterion = "unset" /\ optimizer = FALSE
  /\ test_idxs = <<>>
  /\ epoch = -1
  /\ train_it = [a |-> 0, b |-> 0] /\ test_it = [a |-> 0, b |-> 0]
  /\ iterated = 0 /\ cumulative_loss = 0 /\ loss = 0 /\ test_loss = <<>>
  /\ mode = "train" /\ grads = "none" /\ params = 0
  /\ batchDevice = NoDevice /\ fetched = 0
  /\ saved = <<>> /\ scalars = <<>> /\ visualized = 0

\* JoinedDataLoader is imported from torch_utils (line 14).  It yields one
\* combined batch per step; either the shorter loader bounds the iteration
\* (both loaders advance at each step) or every batch of both loaders is
\* yielded (the loaders advance in turn).
JoinPolicies == {"shortest", "all"}

NoPrev == [split |-> FALSE, sampled |-> FALSE, seed |-> None,
           landscape |-> NoSplit, portrait |-> NoSplit, test_idxs |-> <<>>]

Init ==
  /\ \E l \in Launches : argv = l[1] /\ fivek = l[2]
  /\ joinPolicy \in JoinPolicies
  /\ InitProgram
  /\ run = 1 /\ prev = NoPrev

(***************************************************************************)
(* An uncaught exception: the file has no try statement, so the exception  *)
(* reaches the top level and the interpreter exits.                        *)
(***************************************************************************)
\* (under an except clause that swallows it, the program would carry on)
AbortAndContinue(kind) ==
  /\ raised' = kind /\ abortedAt' = pc /\ pc' = pc
  /\ UNCHANGED <<envVars, rngVars, setupVars, loopVars, outVars, runVars>>
Abort(kind) ==
  /\ pc' = "aborted" /\ raised' = kind /\ abortedAt' = pc
  /\ UNCHANGED <<envVars, rngVars, setupVars, loopVars, outVars, runVars>>

Goto(l) == pc' = l /\ UNCHANGED <<raised, abortedAt>>


(***************************************************************************)
(* Lines 33-53: parsing, seeding, the checkpoint directory, the device.    *)
(***************************************************************************)
\* line 33 (argparse exits with status 2 on a value outside choices)
Parse ==
  /\ pc = "l33"
  /\ IF ParseAccepts(argv)
       THEN /\ opt' = ParseArgs(argv)
            /\ Goto("l43")
       ELSE /\ pc' = "exited" /\ raised' = "SystemExit" /\ abortedAt' = pc
            /\ UNCHANGED opt
  /\ UNCHANGED <<envVars, rngVars, checkpoint_dir_made, device, train_size,
                 test_size, landscape_split, portrait_split, model, criterion,
                 optimizer, test_idxs, loopVars, outVars, runVars>>

\* lines 43-44
DefaultSeed ==
  /\ pc = "l43"
  /\ IF opt.manual_seed = None
       THEN \E s \in RandInt(pyRng) :
              /\ opt' = [opt EXCEPT !.manual_seed = s]
              /\ pyRng' = Advance(pyRng)
       ELSE UNCHANGED <<opt, pyRng>>
  /\ Goto("l46")
  /\ UNCHANGED <<envVars, torchRng, checkpoint_dir_made, device, train_size,
                 test_size, landscape_split, portrait_split, model, criterion,
                 optimizer, test_idxs, loopVars, outVars, runVars>>

\* lines 46-47
SeedGenerators ==
  /\ pc = "l46"
  /\ pyRng' = ManualSeed(pyRng, opt.manual_seed)
  /\ torchRng' = ManualSeed(torchRng, opt.manual_seed)
  /\ Goto("l49")
  /\ UNCHANGED <<envVars, setupVars, loopVars, outVars, runVars>>

\* line 49: only opt.checkpoint_dir is created, opt.final_dir is not
MakeCheckpointDir ==
  /\ pc = "l49"
  /\ checkpoint_dir_made' = TRUE
  /\ Goto("l53")
  /\ UNCHANGED <<envVars, rngVars, opt, device, train_size, test_size,
                 landscape_split, portrait_split, model, criterion, optimizer,
                 test_idxs, loopVars, outVars, runVars>>

\* lines 51-53
ChooseDevice ==
  /\ pc = "l53"
  /\ device' = SelectDevice(opt)
  /\ Goto("l69")
  /\ UNCHANGED <<envVars, rngVars, opt, checkpoint_dir_made, train_size,
                 test_size, landscape_split, portrait_split, model, criterion,
                 optimizer, test_idxs, loopVars, outVars, runVars>>

(***************************************************************************)
(* Lines 65-83: the datasets, their splits and the loaders.                *)
(***************************************************************************)
\* lines 69-70 and 73-74, for a dataset of n samples
TrainSize(n) == TruncMul08(n)
TestSize(n, train) == n - train

\* lines 69-70 (len(landscape_dataset) is the landscape samples on disk)
LandscapeSizes ==
  /\ pc = "l69"
  /\ train_size' = TrainSize(fivek.landscape)
  /\ test_size' = TestSize(fivek.landscape, train_size')
  /\ Goto("l71")
  /\ UNCHANGED <<envVars, rngVars, opt, checkpoint_dir_made, device,
                 landscape_split, portrait_split, model, criterion, optimizer,
                 test_idxs, loopVars, outVars, runVars>>

\* line 71: random_split raises ValueError unless the lengths sum to the dataset's
LandscapeSplit ==
  /\ pc = "l71"
  /\ IF train_size + test_size # fivek.landscape
       THEN Abort("ValueError")
       ELSE /\ \E perm \in RandPerm(torchRng, fivek.landscape) :
                 landscape_split' = SplitBy(perm, train_size)
            /\ torchRng' = Advance(torchRng)
            /\ Goto("l73")
            /\ UNCHANGED <<envVars, pyRng, opt, checkpoint_dir_made, device,
                           train_size, test_size, portrait_split, model,
                           criterion, optimizer, test_idxs, loopVars, outVars,
                           runVars>>

\* lines 73-74
PortraitSizes ==
  /\ pc = "l73"
  /\ train_size' = TrainSize(fivek.portrait)
  /\ test_size' = TestSize(fivek.portrait, train_size')
  /\ Goto("l75")
  /\ UNCHANGED <<envVars, rngVars, opt, checkpoint_dir_made, device,
                 landscape_split, portrait_split, model, criterion, optimizer,
                 test_idxs, loopVars, outVars, runVars>>

\* line 75
PortraitSplit ==
  /\ pc = "l75"
  /\ IF train_size + test_size # fivek.portrait
       THEN Abort("ValueError")
       ELSE /\ \E perm \in RandPerm(torchRng, fivek.portrait) :
                 portrait_split' = SplitBy(perm, train_size)
            /\ torchRng' = Advance(torchRng)
            /\ Goto("l77")
            /\ UNCHANGED <<envVars, pyRng, opt, checkpoint_dir_made, device,
                           train_size, test_size, landscape_split, model,
                           criterion, optimizer, test_idxs, loopVars, outVars,
                           runVars>>

\* len(DataLoader(dataset, batch_size=bs)): drop_last is False
BatchCount(n, bs) == (n + bs - 1) \div bs

\* JoinedDataLoader: its length is the number of batches an iteration yields
JoinedLen(a, b) == IF joinPolicy = "shortest" THEN Min(a, b) ELSE a + b
JoinedHasNext(it, a, b) ==
  IF joinPolicy = "shortest" THEN it.a < a /\ it.b < b ELSE it.a < a \/ it.b < b
JoinedAdvance(it, a, b) ==
  IF joinPolicy = "shortest" THEN [a |-> it.a + 1, b |-> it.b + 1]
  ELSE IF it.a < a /\ (it.b >= b \/ it.a <= it.b) THEN [it EXCEPT !.a = @ + 1]
  ELSE [it EXCEPT !.b = @ + 1]
JoinedIter == [a |-> 0, b |-> 0]

TrainLandscapeLen == BatchCount(Len(landscape_split.train), opt.batch_size)
TrainPortraitLen == BatchCount(Len(portrait_split.train), opt.batch_size)
TestLandscapeLen == BatchCount(Len(landscape_split.test), opt.batch_size)
TestPortraitLen == BatchCount(Len(portrait_split.test), opt.batch_size)

SomeSubsetEmpty ==
  \/ Len(landscape_split.train) = 0 \/ Len(landscape_split.test) = 0
  \/ Len(portrait_split.train) = 0 \/ Len(portrait_split.test) = 0

\* lines 77-83: the loaders are built and nothing is drawn
BuildLoaders ==
  /\ pc = "l77"
  /\ Goto("l86")
  /\ UNCHANGED <<envVars, rngVars, setupVars, loopVars, outVars, runVars>>

\* lines 77-82: DataLoader(shuffle=True) builds a RandomSampler, which in the
\* torch releases up to 1.7 raises ValueError on an empty dataset
BuildLoadersRaises ==
  /\ pc = "l77"
  /\ SomeSubsetEmpty
  /\ Abort("ValueError")


(***************************************************************************)
(* Lines 86-111: the model, the criterion, the optimizer, the indices of   *)
(* the samples to display.                                                 *)
(***************************************************************************)
\* lines 86-89: two independent if statements
ModelAfter(sel, cur) ==
  LET m1 == IF sel = "can32" THEN "ConditionalCAN" ELSE cur
  IN IF sel = "unet" THEN "ConditionalUNet" ELSE m1

\* lines 93-104: six independent if statements
CriterionAfter(sel, cur) ==
  LET c1 == IF sel = "mse" THEN "MSELoss" ELSE cur
      c2 == IF sel = "mae" THEN "L1Loss" ELSE c1
      c3 == IF sel = "l1nima" THEN "NimaLoss(L1Loss)" ELSE c2
      c4 == IF sel = "l2nima" THEN "NimaLoss(MSELoss)" ELSE c3
      c5 == IF sel = "l1ssim" THEN "ColorSSIM(l1)" ELSE c4
  IN IF sel = "colorssim" THEN "ColorSSIM" ELSE c5

\* lines 86-89; a constructed network draws its initial weights from torch's generator
SelectModel ==
  /\ pc = "l86"
  /\ model' = ModelAfter(opt.model_type, model)
  /\ torchRng' = IF model' = "unset" THEN torchRng ELSE Advance(torchRng)
  /\ Goto("l90")
  /\ UNCHANGED <<envVars, pyRng, opt, checkpoint_dir_made, device, train_size,
                 test_size, landscape_split, portrait_split, criterion,
                 optimizer, test_idxs, loopVars, outVars, runVars>>

\* lines 90-91: evaluating the unbound name raises NameError before assert tests it
AssertModel ==
  /\ pc = "l90"
  /\ IF model = "unset"
       THEN Abort("NameError")
       ELSE /\ Goto("l93")
            /\ UNCHANGED <<envVars, rngVars, setupVars, loopVars, outVars, runVars>>

\* lines 93-104
SelectCriterion ==
  /\ pc = "l93"
  /\ criterion' = CriterionAfter(opt.loss, criterion)
  /\ Goto("l105")
  /\ UNCHANGED <<envVars, rngVars, opt, checkpoint_dir_made, device, train_size,
                 test_size, landscape_split, portrait_split, model, optimizer,
                 test_idxs, loopVars, outVars, runVars>>

\* lines 105-106
AssertCriterion ==
  /\ pc = "l105"
  /\ IF criterion = "unset"
       THEN Abort("NameError")
       ELSE /\ Goto("l108")
            /\ UNCHANGED <<envVars, rngVars, setupVars, loopVars, outVars, runVars>>

\* line 108
BuildOptimizer ==
  /\ pc = "l108"
  /\ optimizer' = TRUE
  /\ Goto("l111")
  /\ UNCHANGED <<envVars, rngVars, opt, checkpoint_dir_made, device, train_size,
                 test_size, landscape_split, portrait_split, model, criterion,
                 test_idxs, loopVars, outVars, runVars>>

\* line 111: random.sample raises ValueError when the population is smaller than 3
SampleTestIdxs ==
  /\ pc = "l111"
  /\ IF Len(landscape_split.test) < SampleK
       THEN Abort("ValueError")
       ELSE /\ \E idxs \in Sample(pyRng, Len(landscape_split.test)) :
                 test_idxs' = idxs
            /\ pyRng' = Advance(pyRng)
            /\ Goto("l112")
            /\ UNCHANGED <<envVars, torchRng, opt, checkpoint_dir_made, device,
                           train_size, test_size, landscape_split,
                           portrait_split, model, criterion, optimizer,
                           loopVars, outVars, runVars>>

(***************************************************************************)
(* Lines 112-126: the epoch loop and its training batches.                 *)
(***************************************************************************)
\* line 112: range(opt.epochs) yields epoch + 1 or is exhausted
LoopHead ==
  /\ pc = "l112"
  /\ IF epoch + 1 < opt.epochs
       THEN epoch' = epoch + 1 /\ Goto("l113")
       ELSE UNCHANGED epoch /\ Goto("l154")
  /\ UNCHANGED <<envVars, rngVars, setupVars, train_it, test_it, iterated,
                 cumulative_loss, loss, test_loss, mode, grads, params,
                 batchDevice, fetched, outVars, runVars>>

\* lines 113-115: model.train(), the running loss, iter(train_loader)
StartTraining ==
  /\ pc = "l113"
  /\ mode' = "train"
  /\ cumulative_loss' = 0
  /\ train_it' = JoinedIter
  /\ iterated' = 0
  /\ Goto("l115")
  /\ UNCHANGED <<envVars, rngVars, setupVars, epoch, test_it, loss, test_loss,
                 grads, params, batchDevice, fetched, outVars, runVars>>

\* lines 116-117: .to(device) (tensors left where the loader put them are on the cpu)
BatchDeviceCpu(dev) == [kind |-> "cpu", idx |-> -1]
BatchDevice(dev) == dev

\* lines 115-117: the next combined batch, moved to the device, or the loop's end
FetchTrain ==
  /\ pc = "l115"
  /\ IF JoinedHasNext(train_it, TrainLandscapeLen, TrainPortraitLen)
       THEN /\ train_it' = JoinedAdvance(train_it, TrainLandscapeLen, TrainPortraitLen)
            /\ iterated' = iterated + 1
            /\ fetched' = fetched + 1
            /\ batchDevice' = BatchDevice(device)
            /\ Goto("l118")
       ELSE /\ Goto("l128")
            /\ UNCHANGED <<train_it, iterated, fetched, batchDevice>>
  /\ UNCHANGED <<envVars, rngVars, setupVars, epoch, test_it, cumulative_loss,
                 loss, test_loss, mode, grads, params, outVars, runVars>>

\* line 118
ZeroGrad ==
  /\ pc = "l118"
  /\ grads' = "zero"
  /\ Goto("l120")
  /\ UNCHANGED <<envVars, rngVars, setupVars, epoch, train_it, test_it, iterated,
                 cumulative_loss, loss, test_loss, mode, params, batchDevice,
                 fetched, outVars, runVars>>

\* line 120
Forward ==
  /\ pc = "l120"
  /\ Goto("l121")
  /\ UNCHANGED <<envVars, rngVars, setupVars, loopVars, outVars, runVars>>

\* loss.item(): a positive number that depends on the parameters
LossItem(p) == 1 + (p % 2)

\* line 121
ComputeLoss ==
  /\ pc = "l121"
  /\ loss' = LossItem(params)
  /\ Goto("l122")
  /\ UNCHANGED <<envVars, rngVars, setupVars, epoch, train_it, test_it, iterated,
                 cumulative_loss, test_loss, mode, grads, params, batchDevice,
                 fetched, outVars, runVars>>

\* line 122
Backward ==
  /\ pc = "l122"
  /\ grads' = "fresh"
  /\ Goto("l123")
  /\ UNCHANGED <<envVars, rngVars, setupVars, epoch, train_it, test_it, iterated,
                 cumulative_loss, loss, test_loss, mode, params, batchDevice,
                 fetched, outVars, runVars>>

\* optimizer.step(): one update of the parameters
StepParams(p) == p + 1

\* line 123
OptimizerStep ==
  /\ pc = "l123"
  /\ params' = StepParams(params)
  /\ Goto("l124")
  /\ UNCHANGED <<envVars, rngVars, setupVars, epoch, train_it, test_it, iterated,
                 cumulative_loss, loss, test_loss, mode, grads, batchDevice,
                 fetched, outVars, runVars>>

\* lines 124-126
Accumulate ==
  /\ pc = "l124"
  /\ cumulative_loss' = cumulative_loss + loss
  /\ Goto("l115")
  /\ UNCHANGED <<envVars, rngVars, setupVars, epoch, train_it, test_it, iterated,
                 loss, test_loss, mode, grads, params, batchDevice, fetched,
                 outVars, runVars>>


(***************************************************************************)
(* Lines 128-152: the training error, the periodic checkpoint, evaluation  *)
(* and visualisation.                                                      *)
(***************************************************************************)
\* the step a scalar is logged at, lines 128 and 143; a logged entry also
\* records the batches its loop yielded and the parameters at the time
\* (line 125 prints epoch + 1; the scalars are logged at epoch)
ScalarStepOneBased(e) == e + 1
ScalarStep(e) == e

\* len(train_loader), the divisor of line 128 (not the length of one of the
\* two loaders it joins)
TrainDivisorLandscapeOnly == TrainLandscapeLen
TrainDivisor == JoinedLen(TrainLandscapeLen, TrainPortraitLen)

\* line 128: float / int raises ZeroDivisionError on a zero divisor
TrainError ==
  /\ pc = "l128"
  /\ IF TrainDivisor = 0
       THEN Abort("ZeroDivisionError")
       ELSE /\ scalars' = Append(scalars,
                 [tag |-> "Train Error", step |-> ScalarStep(epoch),
                  num |-> cumulative_loss, den |-> TrainDivisor,
                  batches |-> iterated, params |-> params])
            /\ Goto("l130")
            /\ UNCHANGED <<envVars, rngVars, setupVars, loopVars, saved,
                           visualized, runVars>>

\* line 130, for an int checkpoint_every: the test is on epoch + 1, not on epoch
CheckpointDueZeroBased(e, c) == e % c = 0
CheckpointDue(e, c) == (e + 1) % c = 0

IsTrainError(e) == e.tag = "Train Error"
IsTestError(e) == e.tag = "Test Error"

\* a torch.save call: the file, the parameters written, and when (the batches
\* fetched, the training loops and the evaluations completed so far)
SaveRecord(name, n, dir) ==
  [name |-> name, n |-> n, dir |-> dir, params |-> params, during |-> epoch,
   fetched |-> fetched, trained |-> Len(SelectSeq(scalars, IsTrainError)),
   evaluated |-> visualized]

\* lines 130-131: int % str raises TypeError
Checkpoint ==
  /\ pc = "l130"
  /\ IF opt.checkpoint_every.isStr
       THEN Abort("TypeError")
       ELSE IF CheckpointDue(epoch, opt.checkpoint_every.n) /\ ~checkpoint_dir_made
       THEN Abort("FileNotFoundError")
       ELSE /\ saved' = IF CheckpointDue(epoch, opt.checkpoint_every.n)
                          THEN Append(saved, SaveRecord("epoch", epoch + 1, "checkpoint_dir"))
                          ELSE saved
            /\ Goto("l134")
            /\ UNCHANGED <<envVars, rngVars, setupVars, loopVars, scalars,
                           visualized, runVars>>

\* lines 134-136: model.eval(), the list of losses, iter(test_loader)
StartEvaluation ==
  /\ pc = "l134"
  /\ mode' = "eval"
  /\ test_loss' = <<>>
  /\ test_it' = JoinedIter
  /\ iterated' = 0
  /\ Goto("l136")
  /\ UNCHANGED <<envVars, rngVars, setupVars, epoch, train_it, cumulative_loss,
                 loss, grads, params, batchDevice, fetched, outVars, runVars>>

\* lines 136-138
FetchTest ==
  /\ pc = "l136"
  /\ IF JoinedHasNext(test_it, TestLandscapeLen, TestPortraitLen)
       THEN /\ test_it' = JoinedAdvance(test_it, TestLandscapeLen, TestPortraitLen)
            /\ iterated' = iterated + 1
            /\ batchDevice' = BatchDevice(device)
            /\ Goto("l140")
       ELSE /\ Goto("l142")
            /\ UNCHANGED <<test_it, iterated, batchDevice>>
  /\ UNCHANGED <<envVars, rngVars, setupVars, epoch, train_it, cumulative_loss,
                 loss, test_loss, mode, grads, params, fetched, outVars, runVars>>

\* lines 139-141: a forward pass under torch.no_grad() leaves the parameters
\* (a pass followed by backward and optimizer.step() would not)
EvalParamsTrained(p) == p + 1
EvalParams(p) == p

\* lines 139-141
EvalBatch ==
  /\ pc = "l140"
  /\ params' = EvalParams(params)
  /\ test_loss' = Append(test_loss, LossItem(params))
  /\ Goto("l136")
  /\ UNCHANGED <<envVars, rngVars, setupVars, epoch, train_it, test_it, iterated,
                 cumulative_loss, loss, mode, grads, batchDevice, fetched,
                 outVars, runVars>>

RECURSIVE SeqSum(_)
SeqSum(q) == IF q = <<>> THEN 0 ELSE Head(q) + SeqSum(Tail(q))

\* lines 142-143
TestError ==
  /\ pc = "l142"
  /\ IF Len(test_loss) = 0
       THEN Abort("ZeroDivisionError")
       ELSE /\ scalars' = Append(scalars,
                 [tag |-> "Test Error", step |-> ScalarStep(epoch),
                  num |-> SeqSum(test_loss), den |-> Len(test_loss),
                  batches |-> iterated, params |-> params])
            /\ Goto("l145")
            /\ UNCHANGED <<envVars, rngVars, setupVars, loopVars, saved,
                           visualized, runVars>>

\* lines 145-152: the three image grids; the forward passes are followed by
\* no backward pass and no optimizer step
Visualize ==
  /\ pc = "l145"
  /\ visualized' = visualized + 1
  /\ Goto("l112")
  /\ UNCHANGED <<envVars, rngVars, setupVars, loopVars, saved, scalars, runVars>>

\* lines 115-126 and 136-141: any statement of a batch may raise, the
\* loading of the batch and its move to the device included
BatchLines == {"l118", "l120", "l121", "l122", "l123", "l124", "l140"}
BatchRaises ==
  /\ \/ pc \in BatchLines
     \/ pc = "l115" /\ JoinedHasNext(train_it, TrainLandscapeLen, TrainPortraitLen)
     \/ pc = "l136" /\ JoinedHasNext(test_it, TestLandscapeLen, TestPortraitLen)
  /\ Abort("BatchError")

(***************************************************************************)
(* Lines 154-155: the final save.  torch.save opens the file for writing   *)
(* and raises when its directory is missing; the program creates           *)
(* opt.checkpoint_dir (line 49) and never opt.final_dir, so whether the    *)
(* directory is there is the environment's choice.                         *)
(***************************************************************************)
FinalSave ==
  /\ pc = "l154"
  /\ saved' = Append(saved, SaveRecord("final", 0, "final_dir"))
  /\ Goto("finished")
  /\ UNCHANGED <<envVars, rngVars, setupVars, loopVars, scalars, visualized,
                 runVars>>

FinalSaveRaises ==
  /\ pc = "l154"
  /\ Abort("FileNotFoundError")

Terminated == pc \in {"finished", "aborted", "exited"}

\* the line the program is at, or was at when it stopped
Position == IF pc \in {"aborted", "exited"} THEN abortedAt ELSE pc
BeforeSplit == {"l33", "l43", "l46", "l49", "l53", "l69", "l71", "l73", "l75"}
BeforeSample == BeforeSplit \cup {"l77", "l86", "l90", "l93", "l105", "l108", "l111"}
\* lines 71 and 75 have both run; line 111 has run
SplitDone == Position \notin BeforeSplit
SampleDone == Position \notin BeforeSample

(***************************************************************************)
(* The same command line launched a second time over the same dataset: a   *)
(* new process, whose generators start unseeded again.                     *)
(***************************************************************************)
Relaunch ==
  /\ run = 1
  /\ Terminated
  /\ run' = 2
  /\ prev' = [split |-> SplitDone, sampled |-> SampleDone,
              seed |-> opt.manual_seed, landscape |-> landscape_split,
              portrait |-> portrait_split, test_idxs |-> test_idxs]
  /\ pc' = "l33" /\ raised' = "none" /\ abortedAt' = "none"
  /\ opt' = NoOpt
  /\ pyRng' = Unseeded /\ torchRng' = Unseeded
  /\ checkpoint_dir_made' = FALSE
  /\ device' = NoDevice
  /\ train_size' = 0 /\ test_size' = 0
  /\ landscape_split' = NoSplit /\ portrait_split' = NoSplit
  /\ model' = "unset" /\ criterion' = "unset" /\ optimizer' = FALSE
  /\ test_idxs' = <<>>
  /\ epoch' = -1
  /\ train_it' = JoinedIter /\ test_it' = JoinedIter
  /\ iterated' = 0 /\ cumulative_loss' = 0 /\ loss' = 0 /\ test_loss' = <<>>
  /\ mode' = "train" /\ grads' = "none" /\ params' = 0
  /\ batchDevice' = NoDevice /\ fetched' = 0
  /\ saved' = <<>> /\ scalars' = <<>> /\ visualized' = 0
  /\ UNCHANGED envVars

Next ==
  \/ Parse \/ DefaultSeed \/ SeedGenerators \/ MakeCheckpointDir \/ ChooseDevice
  \/ LandscapeSizes \/ LandscapeSplit \/ PortraitSizes \/ PortraitSplit
  \/ BuildLoaders \/ BuildLoadersRaises
  \/ SelectModel \/ AssertModel \/ SelectCriterion \/ AssertCriterion
  \/ BuildOptimizer \/ SampleTestIdxs
  \/ LoopHead \/ StartTraining \/ FetchTrain \/ ZeroGrad \/ Forward
  \/ ComputeLoss \/ Backward \/ OptimizerStep \/ Accumulate \/ BatchRaises
  \/ TrainError \/ Checkpoint \/ StartEvaluation \/ FetchTest \/ EvalBatch
  \/ TestError \/ Visualize \/ FinalSave \/ FinalSaveRaises

\* one launch of the program
Spec == Init /\ [][Next]_vars

\* two launches of the same command line
SpecTwoRuns == Init /\ [][Next \/ Relaunch]_vars


(***************************************************************************)
(* Properties.                                                             *)
(***************************************************************************)
IsPeriodic(r) == r.name = "epoch"
IsFinal(r) == r.name = "final"
Periodic == SelectSeq(saved, IsPeriodic)
Finals == SelectSeq(saved, IsFinal)
TrainErrors == SelectSeq(scalars, IsTrainError)
TestErrors == SelectSeq(scalars, IsTestError)

\* C1: a run that completes has written exactly the periodic checkpoints
\* {run_tag}_epoch{N}.pt for the N in 1..E that are multiples of the interval,
\* each once, N being the 1-based number of the epoch just trained, and then
\* exactly one {run_tag}_final.pt, also when E is a multiple of the interval.
C1_CheckpointFiles ==
  pc = "finished" =>
    LET due == {n \in 1..opt.epochs : n % opt.checkpoint_every.n = 0}
    IN /\ {Periodic[k].n : k \in 1..Len(Periodic)} = due
       /\ Len(Periodic) = Cardinality(due)
       /\ \A k \in 1..Len(Periodic) :
            /\ Periodic[k].during + 1 = Periodic[k].n
            /\ Periodic[k].dir = "checkpoint_dir"
       /\ Len(Finals) = 1
       /\ saved[Len(saved)].name = "final"
       /\ saved[Len(saved)].evaluated = opt.epochs

\* a completed run whose epoch count is a multiple of the interval
C1_Witness ==
  /\ pc = "finished"
  /\ opt.epochs = CheckpointEveryDefault
  /\ Len(saved) = 2

\* C2: a run that reached the epoch loop and in which no batch raised has,
\* once it stops, executed its E epoch iterations (0..E-1, in order), written
\* the final checkpoint after the evaluation and visualisation of the last
\* one, and stopped in the finished state.
C2_RunReachesFinished ==
  (Terminated /\ SampleDone /\ raised # "BatchError") =>
    /\ pc = "finished"
    /\ visualized = opt.epochs
    /\ Len(Finals) = 1
    /\ saved[Len(saved)].name = "final"

\* C3: for each orientation the sizes computed are floor(0.8 * N) and the
\* rest, both non-negative and summing to N, and each split has the sizes
\* computed from its own dataset whatever the other dataset's length.
SizesOf(n, tr, te) ==
  /\ tr = (4 * n) \div 5
  /\ te = n - tr
  /\ tr >= 0 /\ te >= 0
  /\ tr + te = n
C3_SplitSizes ==
  /\ pc = "l71" => SizesOf(fivek.landscape, train_size, test_size)
  /\ pc = "l75" => SizesOf(fivek.portrait, train_size, test_size)
  /\ Position \notin {"l33", "l43", "l46", "l49", "l53", "l69", "l71"} =>
       SizesOf(fivek.landscape, Len(landscape_split.train), Len(landscape_split.test))
  /\ SplitDone =>
       SizesOf(fivek.portrait, Len(portrait_split.train), Len(portrait_split.test))

\* both splits made, of datasets of different lengths, one a multiple of 5
C3_Witness ==
  /\ SplitDone
  /\ fivek.landscape = 10 /\ Len(landscape_split.train) = 8
  /\ fivek.portrait = 7 /\ Len(portrait_split.test) = 2

\* C4: with a seed given on the command line, a second launch of the same
\* command line over the same datasets makes the same two splits and samples
\* the same indices as the first, and each of these draws is made from a
\* generator already seeded with the run's seed.
C4_SeededRunsAgree ==
  /\ (run = 2 /\ argv.manual_seed # None) =>
       /\ (SplitDone /\ prev.split) =>
            /\ landscape_split = prev.landscape
            /\ portrait_split = prev.portrait
       /\ (SampleDone /\ prev.sampled) => test_idxs = prev.test_idxs
  /\ pc \in {"l71", "l75", "l111"} =>
       /\ pyRng.seeded /\ pyRng.seed = opt.manual_seed
       /\ torchRng.seeded /\ torchRng.seed = opt.manual_seed

\* the second of two seeded launches has finished, as the first did
C4_Witness ==
  /\ run = 2 /\ argv.manual_seed # None
  /\ pc = "finished"
  /\ prev.sampled /\ prev.test_idxs = test_idxs /\ Len(test_idxs) = SampleK


BeforeDevice == {"l33", "l43", "l46", "l49", "l53"}

\* C5 as stated: once the arguments are parsed, no field of opt is written.
C5_OptNeverWritten == [][pc # "l33" => opt' = opt]_vars

\* C5: after parsing, opt is written only by line 44, which fills in
\* manual_seed when none was given; from the seeding on no field of opt is
\* written; the device chosen by line 53 is not chosen again and is where
\* every batch is moved.
C5_OptWrittenOnlyBySeedDefault ==
  [][/\ pc \notin {"l33", "l43"} => opt' = opt
     /\ pc = "l43" =>
          IF opt.manual_seed = None
            THEN /\ opt'.manual_seed \in Seeds
                 /\ opt' = [opt EXCEPT !.manual_seed = opt'.manual_seed]
            ELSE opt' = opt
     /\ pc \notin BeforeDevice => device = SelectDevice(opt) /\ device' = device
     /\ batchDevice' # batchDevice => batchDevice' = SelectDevice(opt)]_vars

\* a seedless launch on an accelerator has trained and finished
C5_Witness ==
  /\ pc = "finished"
  /\ argv.manual_seed = None /\ opt.manual_seed # None
  /\ argv.cuda /\ batchDevice = device /\ device.kind = "cuda"
  /\ fetched > 0

ModelFor(sel) == IF sel = "can32" THEN "ConditionalCAN" ELSE "ConditionalUNet"
CriterionFor(sel) ==
  CASE sel = "mse" -> "MSELoss"
    [] sel = "mae" -> "L1Loss"
    [] sel = "l1nima" -> "NimaLoss(L1Loss)"
    [] sel = "l2nima" -> "NimaLoss(MSELoss)"
    [] sel = "l1ssim" -> "ColorSSIM(l1)"
    [] sel = "colorssim" -> "ColorSSIM"

\* C6 as stated: a run whose selectors match no conditional is stopped by
\* one of the two assertions.
C6_AssertionStopsUnmatched ==
  (Terminated /\ ~(argv.model_type \in ModelChoices /\ argv.loss \in LossChoices)) =>
    (pc = "aborted" /\ abortedAt \in {"l90", "l105"})

\* C6: each declared selector binds its one model and its one criterion; a
\* command line with any other selector is rejected by the parser at line 33,
\* before a model, a criterion or the optimizer exists and before any batch or
\* checkpoint; the assertions are never reached with the variable unset.
C6_ParserStopsUnmatched ==
  /\ (argv.model_type \in ModelChoices /\ argv.loss \in LossChoices) =>
       /\ Position \notin BeforeSplit \cup {"l77", "l86"} =>
            model = ModelFor(argv.model_type)
       /\ Position \notin BeforeSplit \cup {"l77", "l86", "l90", "l93"} =>
            criterion = CriterionFor(argv.loss)
  /\ ~(argv.model_type \in ModelChoices /\ argv.loss \in LossChoices) =>
       /\ pc \in {"l33", "exited"}
       /\ pc = "exited" => raised = "SystemExit"
       /\ model = "unset" /\ criterion = "unset" /\ ~optimizer
       /\ fetched = 0 /\ saved = <<>>
  /\ pc = "l90" => model # "unset"
  /\ pc = "l105" => criterion # "unset"

\* a command line with an undeclared loss and a declared model was rejected
C6_Witness ==
  /\ pc = "exited"
  /\ argv.loss = OtherSelector /\ argv.model_type \in ModelChoices

RECURSIVE LossSum(_, _)
\* the losses of k successive training batches, the first computed at parameters p
LossSum(p, k) == IF k = 0 THEN 0 ELSE LossItem(p) + LossSum(p + 1, k - 1)

C8_BatchExceptionAborts ==
  [][raised = "BatchError" =>
       /\ pc = "aborted" /\ pc' = pc
       /\ Len(Finals) = 0
       /\ UNCHANGED <<saved, scalars, visualized, epoch, fetched, iterated, params>>]_vars

\* an evaluation batch raised in the epoch whose checkpoint was just written
C8_Witness ==
  /\ raised = "BatchError" /\ abortedAt = "l140"
  /\ Len(Periodic) = 1 /\ Periodic[1].n = epoch + 1

\* C9: evaluation starts with the epoch's training loader exhausted; a
\* periodic checkpoint of epoch N is written in iteration N, after its last
\* training batch and before its evaluation, holding the updates of exactly
\* epochs 1..N; each epoch logs one 'Train Error' and one 'Test Error', at
\* the epoch's index.
C9_PhaseOrder ==
  /\ pc \in {"l134", "l136", "l140", "l142", "l145"} =>
       /\ ~JoinedHasNext(train_it, TrainLandscapeLen, TrainPortraitLen)
       /\ params = fetched
       /\ Len(TrainErrors) = epoch + 1
  /\ \A k \in 1..Len(Periodic) :
       LET r == Periodic[k]
       IN /\ r.during = r.n - 1
          /\ r.trained = r.n /\ r.params = r.fetched /\ r.params > 0
          /\ r.evaluated = r.n - 1
  /\ \A k \in 1..Len(TrainErrors) : TrainErrors[k].step = k - 1
  /\ \A k \in 1..Len(TestErrors) : TestErrors[k].step = k - 1
  /\ Len(TestErrors) <= Len(TrainErrors) /\ Len(TrainErrors) <= Len(TestErrors) + 1
  /\ pc \in {"l112", "l154", "finished"} =>
       /\ Len(TrainErrors) = visualized /\ Len(TestErrors) = visualized
       /\ visualized = epoch + 1

\* the evaluation of the epoch whose checkpoint was just written is starting
C9_Witness ==
  /\ pc = "l134"
  /\ Len(Periodic) = 1 /\ Periodic[1].n = epoch + 1
  /\ Len(TrainErrors) = epoch + 1 /\ Len(TestErrors) = epoch

\* C10: the parameters change only by the optimizer step of a training
\* batch, taken once per batch after zero_grad, the forward pass, the loss and
\* backward, in this order; evaluation, visualisation and checkpointing leave
\* them as they are.
C10_OnlyOptimizerSteps ==
  [][/\ params' # params =>
          /\ pc = "l123" /\ mode = "train" /\ grads = "fresh"
          /\ params' = params + 1
     /\ pc = "l118" => pc' \in {"l118", "l120", "aborted"}
     /\ pc = "l120" => pc' \in {"l120", "l121", "aborted"} /\ grads = "zero"
     /\ pc = "l121" => pc' \in {"l121", "l122", "aborted"}
     /\ pc = "l122" => pc' \in {"l122", "l123", "aborted"}
     /\ pc = "l123" => pc' \in {"l123", "l124", "aborted"}
     /\ params = fetched - (IF Position \in {"l118", "l120", "l121", "l122", "l123"}
                              THEN 1 ELSE 0)
     /\ mode = "eval" => pc \notin {"l115", "l118", "l120", "l121", "l122", "l123", "l124"}
    ]_vars

\* an epoch of two training batches has been evaluated and is being visualised
C10_Witness ==
  /\ pc = "l145"
  /\ params = 2 /\ fetched = 2 /\ mode = "eval" /\ Len(test_loss) > 0

====
